---- MODULE Spec2Model ----
(***************************************************************************)
(* A model of the `pages` crate: a heap page made of a caller header, an   *)
(* embedded descriptor {items, data} and a trailing array of item slots.   *)
(*                                                                         *)
(*   layout.rs    PageLayout::with_capacity, PageDesc, PageHeader          *)
(*   page_ref.rs  PageRef (raw, copyable handle)                           *)
(*   page.rs      Page (owning handle built on PageRef)                    *)
(*   lib.rs       the crate root's own Page, Book and PageLayout           *)
(*                                                                         *)
(* Byte counts are usize values.  They are kept exact: a usize is a        *)
(* little-endian sequence of base-2^15 limbs without leading zero limbs,   *)
(* so that 2^32 and 2^63 are ordinary values of the model.                 *)
(***************************************************************************)
EXTENDS Integers, Sequences, FiniteSets, TLC

(***************************************************************************)
(* usize arithmetic                                                        *)
(***************************************************************************)
Base == 2^15

RECURSIVE BNorm(_)
BNorm(a) ==
  IF a = <<>> THEN a
  ELSE IF a[Len(a)] = 0 THEN BNorm(SubSeq(a, 1, Len(a) - 1)) ELSE a

RECURSIVE BFromInt(_)
BFromInt(n) == IF n = 0 THEN <<>> ELSE <<n % Base>> \o BFromInt(n \div Base)

RECURSIVE BToInt(_)
BToInt(a) == IF a = <<>> THEN 0 ELSE a[1] + Base * BToInt(Tail(a))

BLimb(a, i) == IF i <= Len(a) THEN a[i] ELSE 0

BRest(a) == IF a = <<>> THEN a ELSE Tail(a)

RECURSIVE BAddC(_, _, _)
BAddC(a, b, c) ==
  IF a = <<>> /\ b = <<>>
  THEN (IF c = 0 THEN <<>> ELSE <<c>>)
  ELSE LET s == BLimb(a, 1) + BLimb(b, 1) + c
       IN  <<s % Base>> \o BAddC(BRest(a), BRest(b), s \div Base)

BAdd(a, b) == BNorm(BAddC(a, b, 0))

RECURSIVE BMulLimb(_, _, _)
BMulLimb(a, d, c) ==
  IF a = <<>>
  THEN (IF c = 0 THEN <<>> ELSE <<c>>)
  ELSE LET p == a[1] * d + c
       IN  <<p % Base>> \o BMulLimb(Tail(a), d, p \div Base)

RECURSIVE BMul(_, _)
BMul(a, b) ==
  IF b = <<>> THEN <<>>
  ELSE BAdd(BNorm(BMulLimb(a, b[1], 0)), BNorm(<<0>> \o BMul(a, Tail(b))))

RECURSIVE BLeqFrom(_, _, _)
BLeqFrom(a, b, i) ==
  IF i = 0 THEN TRUE
  ELSE IF a[i] # b[i] THEN a[i] < b[i] ELSE BLeqFrom(a, b, i - 1)

BLeq(a, b) == Len(a) < Len(b) \/ (Len(a) = Len(b) /\ BLeqFrom(a, b, Len(a)))

BLess(a, b) == ~BLeq(b, a)

\* 2^k
BPow2(k) == [i \in 1..(k \div 15) |-> 0] \o <<2^(k % 15)>>

\* 2^k - 1
BOnes(k) ==
  [i \in 1..(k \div 15) |-> Base - 1]
    \o (IF k % 15 = 0 THEN <<>> ELSE <<2^(k % 15) - 1>>)

\* a mod align, for a power-of-two align that divides Base
BModAlign(a, align) == BLimb(a, 1) % align

\* a rounded up to the next multiple of align
BRoundUp(a, align) ==
  IF BModAlign(a, align) = 0 THEN a
  ELSE BAdd(a, BFromInt(align - BModAlign(a, align)))

IntMax(a, b) == IF a >= b THEN a ELSE b

(***************************************************************************)
(* The target and the types a page is instantiated with                    *)
(*                                                                         *)
(* A type is [size, align]: size a usize (limbs), align a power of two.    *)
(***************************************************************************)
PtrWidths == {32, 64}

\* isize::MAX of a target with `bits`-wide pointers
ISizeMax(bits) == BOnes(bits - 1)

\* u32::MAX, the largest value of PageDesc.items and PageDesc.data
U32Max == BOnes(32)

\* size_of::<PageDesc>() and align_of::<PageDesc>(): two u32 fields
DescSize == 8
DescAlign == 4
U32Size == 4

TyUnit == [size |-> <<>>, align |-> 1]
TyBool == [size |-> BFromInt(1), align |-> 1]
TyU8 == [size |-> BFromInt(1), align |-> 1]
TyU64 == [size |-> BFromInt(8), align |-> 8]
\* [u8; 2^32], a type of 64-bit targets only
TyHuge == [size |-> BPow2(32), align |-> 1]
\* [u8; isize::MAX], the largest type of the target
TyMaxBytes(bits) == [size |-> ISizeMax(bits), align |-> 1]

HTypes(bits) == {TyUnit, TyBool, TyU64} \cup (IF bits = 64 THEN {TyHuge} ELSE {})
TTypes(bits) == {TyU8, TyU64, TyMaxBytes(bits)}

(***************************************************************************)
(* core::alloc::Layout, as layout.rs and lib.rs use it.  A Layout is       *)
(* [size, align]; a fallible operation returns [ok, ...].                  *)
(***************************************************************************)
\* Layout::max_size_for_align: isize::MAX - (align - 1)
MaxSizeForAlign(bits, align) ==
  [ISizeMax(bits) EXCEPT ![1] = @ - (align - 1)]

\* Layout::array::<T>(n)
LayoutArray(bits, t, n) ==
  LET total == BMul(t.size, n)
  IN  IF t.size # <<>> /\ BLess(MaxSizeForAlign(bits, t.align), total)
      THEN [ok |-> FALSE]
      ELSE [ok |-> TRUE, layout |-> [size |-> total, align |-> t.align]]

\* Layout::extend: (combined layout, offset of `next` in it)
LayoutExtend(bits, self, next) ==
  LET new_align == IntMax(self.align, next.align)
      offset == BRoundUp(self.size, next.align)
      new_size == BAdd(offset, next.size)
  IN  IF BLess(MaxSizeForAlign(bits, new_align), new_size)
      THEN [ok |-> FALSE]
      ELSE [ok |-> TRUE,
            layout |-> [size |-> new_size, align |-> new_align],
            offset |-> offset]

\* Layout::pad_to_align
LayoutPadToAlign(l) == [size |-> BRoundUp(l.size, l.align), align |-> l.align]

(***************************************************************************)
(* layout.rs                                                               *)
(***************************************************************************)
\* struct PageHeader<H> { header: H, desc: PageDesc }: the compiler lays the
\* two fields out in either order (descFirst is the build's choice).
PageHeaderFields(h, descFirst) ==
  LET align == IntMax(h.align, DescAlign)
  IN  IF descFirst
      THEN LET hoff == BRoundUp(BFromInt(DescSize), h.align)
           IN  [header |-> hoff, desc |-> <<>>,
                size |-> BRoundUp(BAdd(hoff, h.size), align), align |-> align]
      ELSE LET doff == BRoundUp(h.size, DescAlign)
           IN  [header |-> <<>>, desc |-> doff,
                size |-> BRoundUp(BAdd(doff, BFromInt(DescSize)), align),
                align |-> align]

\* Layout::new::<PageHeader<H>>()
PageHeaderLayout(h, descFirst) ==
  [size |-> PageHeaderFields(h, descFirst).size,
   align |-> PageHeaderFields(h, descFirst).align]

\* with_capacity with `data as u32` in place of data.try_into().unwrap():
\* an offset that does not fit is cut to 32 bits instead of panicking
with_capacity_wrapping(bits, ty, items) ==
  IF ~(items > 0) THEN [ok |-> FALSE, why |-> "assert"]
  ELSE
    LET header == PageHeaderLayout(ty.h, ty.descFirst)
        array == LayoutArray(bits, ty.t, BFromInt(items))
    IN  IF ~array.ok THEN [ok |-> FALSE, why |-> "array"]
        ELSE
          LET ext == LayoutExtend(bits, header, array.layout)
          IN  IF ~ext.ok THEN [ok |-> FALSE, why |-> "extend"]
              ELSE [ok |-> TRUE,
                    desc |-> [items |-> items,
                              data |-> BNorm(<<BLimb(ext.offset, 1),
                                               BLimb(ext.offset, 2),
                                               BLimb(ext.offset, 3) % 4>>)],
                    layout |-> LayoutPadToAlign(ext.layout)]

\* with_capacity taking the header composite's size for the data offset,
\* without the padding that aligns the array
with_capacity_unaligned(bits, ty, items) ==
  IF ~(items > 0) THEN [ok |-> FALSE, why |-> "assert"]
  ELSE
    LET header == PageHeaderLayout(ty.h, ty.descFirst)
        array == LayoutArray(bits, ty.t, BFromInt(items))
    IN  IF ~array.ok THEN [ok |-> FALSE, why |-> "array"]
        ELSE
          LET ext == LayoutExtend(bits, header, array.layout)
          IN  IF ~ext.ok THEN [ok |-> FALSE, why |-> "extend"]
              ELSE IF ~BLeq(header.size, U32Max)
                   THEN [ok |-> FALSE, why |-> "try_into"]
                   ELSE [ok |-> TRUE,
                         desc |-> [items |-> items, data |-> header.size],
                         layout |-> LayoutPadToAlign(ext.layout)]

\* with_capacity without pad_to_align
with_capacity_unpadded(bits, ty, items) ==
  IF ~(items > 0) THEN [ok |-> FALSE, why |-> "assert"]
  ELSE
    LET header == PageHeaderLayout(ty.h, ty.descFirst)
        array == LayoutArray(bits, ty.t, BFromInt(items))
    IN  IF ~array.ok THEN [ok |-> FALSE, why |-> "array"]
        ELSE
          LET ext == LayoutExtend(bits, header, array.layout)
          IN  IF ~ext.ok THEN [ok |-> FALSE, why |-> "extend"]
              ELSE IF ~BLeq(ext.offset, U32Max)
                   THEN [ok |-> FALSE, why |-> "try_into"]
                   ELSE [ok |-> TRUE,
                         desc |-> [items |-> items, data |-> ext.offset],
                         layout |-> ext.layout]

\* PageLayout::<H, T>::with_capacity(items); ty = [h, t, descFirst]
with_capacity(bits, ty, items) ==
  IF ~(items > 0) THEN [ok |-> FALSE, why |-> "assert"]
  ELSE
    LET header == PageHeaderLayout(ty.h, ty.descFirst)
        array == LayoutArray(bits, ty.t, BFromInt(items))
    IN  IF ~array.ok THEN [ok |-> FALSE, why |-> "array"]
        ELSE
          LET ext == LayoutExtend(bits, header, array.layout)
          IN  IF ~ext.ok THEN [ok |-> FALSE, why |-> "extend"]
              ELSE IF ~BLeq(ext.offset, U32Max)
                   THEN [ok |-> FALSE, why |-> "try_into"]
                   ELSE [ok |-> TRUE,
                         desc |-> [items |-> items, data |-> ext.offset],
                         layout |-> LayoutPadToAlign(ext.layout)]

(***************************************************************************)
(* lib.rs: the crate root's PageLayout                                     *)
(***************************************************************************)
\* PageLayout::static_prefix::<H>(): (prefix layout, offset of the Book)
static_prefix(bits, h) ==
  LayoutExtend(bits, h, [size |-> BFromInt(DescSize), align |-> DescAlign])

\* PageLayout::for_capacity::<H, T>(items), then Page::new's Book
for_capacity(bits, ty, items) ==
  LET pre == static_prefix(bits, ty.h)
      array == LayoutArray(bits, ty.t, BFromInt(items))
  IN  IF ~pre.ok THEN [ok |-> FALSE, why |-> "prefix"]
      ELSE IF ~array.ok THEN [ok |-> FALSE, why |-> "array"]
      ELSE
        LET ext == LayoutExtend(bits, pre.layout, array.layout)
        IN  IF ~ext.ok THEN [ok |-> FALSE, why |-> "extend"]
            ELSE [ok |-> TRUE, book |-> pre.offset, data |-> ext.offset,
                  layout |-> LayoutPadToAlign(ext.layout)]

(***************************************************************************)
(* Bounds of the exploration                                               *)
(***************************************************************************)
\* small capacities 0..MaxCap are tried, and the large capacity BigCap
MaxCap == 2
BigCap == 2^30
\* bytes the allocator can hand out; a larger request returns null
HeapBytes == 64
\* owning handles the caller may build over one allocation with from_ref
MaxOwners == 2

Caps == (0..MaxCap) \cup {BigCap}

\* an uninitialised byte
Uninit == -1
\* bytes the header values and the item values are made of
HeaderBytes == {0, 1}
ItemBytes == {7, 42}

TypeInsts(bits) == [h : HTypes(bits), t : TTypes(bits), descFirst : BOOLEAN]

\* the values of a type of `size` bytes over the given bytes; a value larger
\* than the heap is never written out, and stands as <<>>
Values(size, bytes) ==
  IF size = <<>> \/ ~BLeq(size, BFromInt(HeapBytes)) THEN {<<>>}
  ELSE {[k \in 1..BToInt(size) |-> b] : b \in bytes}

(***************************************************************************)
(* Raw memory of one allocation: offset -> byte                            *)
(***************************************************************************)
FreshMem(size) == [k \in 0..(size - 1) |-> Uninit]

\* ptr.add(off).write(bytes)
WriteBytes(m, off, bytes) ==
  [k \in DOMAIN m |->
     IF off <= k /\ k < off + Len(bytes) THEN bytes[k - off + 1] ELSE m[k]]

\* one byte; a byte outside the allocation is not the page's to read
Peek(m, k) == IF k \in DOMAIN m THEN m[k] ELSE Uninit

\* ptr.add(off).read() of n bytes
ReadBytes(m, off, n) == [k \in 1..n |-> Peek(m, off + k - 1)]

\* a u32 in memory (little-endian)
EncodeU32(n) ==
  <<n % 256, (n \div 256) % 256, (n \div 65536) % 256, (n \div 16777216) % 256>>

DecodeU32(b) == b[1] + 256 * b[2] + 65536 * b[3] + 16777216 * b[4]

\* a PageDesc / Book in memory: items, then data
WriteDesc(m, off, d) ==
  WriteBytes(WriteBytes(m, off, EncodeU32(d.items)),
             off + U32Size, EncodeU32(d.data))

ReadDesc(m, off) ==
  [items |-> DecodeU32(ReadBytes(m, off, U32Size)),
   data |-> DecodeU32(ReadBytes(m, off + U32Size, U32Size))]

(***************************************************************************)
(* State: the target, one allocation of the global allocator, the handles  *)
(* the caller holds on it, and what the calls so far did.                  *)
(***************************************************************************)
VARIABLES
  ptrBits,    \* pointer width of the target
  heap,       \* the allocation: "none", "live" or "freed"
  mem,        \* its bytes while live
  ty,         \* the (H, T) the page is instantiated with
  impl,       \* "ref": page.rs over page_ref.rs; "lib": lib.rs
  owned,      \* number of owning Page handles on the allocation
  rawRef,     \* the caller holds PageRef copies
  converted,  \* to_ref was called on the page
  rebuilt,    \* from_ref built an owning handle on the page
  args,       \* the header and capacity the page was constructed with
  lastHeader, \* the header value most recently written by the caller
  lastSlot,   \* per slot, the value most recently written by the caller
  log,        \* allocator and destructor events, in order
  last,       \* the most recent constructor call and how it ended
  ub          \* the program has executed undefined behaviour

vars == <<ptrBits, heap, mem, ty, impl, owned, rawRef, converted, rebuilt,
          args, lastHeader, lastSlot, log, last, ub>>

NoValue == <<Uninit>>
NoLayout == [size |-> <<>>, align |-> 1]
NoTy == [h |-> TyUnit, t |-> TyU8, descFirst |-> FALSE]
NoCall == [op |-> "none", impl |-> "ref", ty |-> NoTy, items |-> 1,
           result |-> "none", why |-> "none", allocs |-> 0,
           layout |-> NoLayout, data |-> <<>>, nullWrite |-> FALSE,
           returned |-> FALSE]

Event(e, l) == [ev |-> e, layout |-> l]

Init ==
  /\ ptrBits \in PtrWidths
  /\ heap = "none"
  /\ mem = <<>>
  /\ ty = NoTy
  /\ impl = "ref"
  /\ owned = 0
  /\ rawRef = FALSE
  /\ converted = FALSE
  /\ rebuilt = FALSE
  /\ args = [header |-> <<>>, items |-> 1]
  /\ lastHeader = NoValue
  /\ lastSlot = <<>>
  /\ log = <<>>
  /\ last = NoCall
  /\ ub = FALSE

(***************************************************************************)
(* page_ref.rs: accessors (pure reads of the page's memory)                *)
(***************************************************************************)
\* byte offsets of PageHeader<H>'s fields in a live (small) page
HeaderOffset(t) == BToInt(PageHeaderFields(t.h, t.descFirst).header)
DescOffset(t) == BToInt(PageHeaderFields(t.h, t.descFirst).desc)

\* PageRef::desc: the embedded descriptor
PageRef_desc(m, t) == ReadDesc(m, DescOffset(t))

\* PageRef::capacity
PageRef_capacity(m, t) == PageRef_desc(m, t).items

\* PageRef::header
PageRef_header(m, t) == ReadBytes(m, HeaderOffset(t), BToInt(t.h.size))

\* header_mut taking the page pointer for the header's address
PageRef_header_mut_write_at_page(m, t, v) == WriteBytes(m, 0, v)

\* PageRef::header_mut, then the caller's write through it
PageRef_header_mut_write(m, t, v) == WriteBytes(m, HeaderOffset(t), v)

\* data() returning the page pointer without the descriptor's offset
PageRef_data_unoffset(m, t) == 0

\* PageRef::data: offset of the data array from the page pointer
PageRef_data(m, t) == PageRef_desc(m, t).data

\* layout recomputed from the descriptor's data offset instead of its items
PageRef_layout_from_data(bits, m, t) ==
  with_capacity(bits, t, PageRef_desc(m, t).data)

\* PageRef::layout / Page::layout
PageRef_layout(bits, m, t) == with_capacity(bits, t, PageRef_desc(m, t).items)

\* from_uninit zeroing the whole block before it writes the composite
PageRef_from_uninit_zeroing(m, t, header, lay) ==
  WriteDesc(WriteBytes([k \in DOMAIN m |-> 0], HeaderOffset(t), header),
            DescOffset(t),
            [items |-> lay.desc.items, data |-> BToInt(lay.desc.data)])

\* PageRef::from_uninit: writes PageHeader { header, desc } at the pointer
PageRef_from_uninit(m, t, header, lay) ==
  WriteDesc(WriteBytes(m, HeaderOffset(t), header), DescOffset(t),
            [items |-> lay.desc.items, data |-> BToInt(lay.desc.data)])

(***************************************************************************)
(* lib.rs: accessors of the crate root's Page                              *)
(***************************************************************************)
\* Page::book: the Book sits at static_prefix::<H>().1
Lib_book(bits, m, t) == ReadDesc(m, BToInt(static_prefix(bits, t.h).offset))

Lib_capacity(bits, m, t) == Lib_book(bits, m, t).items

\* Page::header: the header sits at the page pointer
Lib_header(m, t) == ReadBytes(m, 0, BToInt(t.h.size))

Lib_header_mut_write(m, t, v) == WriteBytes(m, 0, v)

\* Page::data_ptr
Lib_data_ptr(bits, m, t) == Lib_book(bits, m, t).data

\* Page::new's initialisation: header_ptr.write(header); book_ptr.write(book)
Lib_init(m, t, header, lay, items) ==
  WriteDesc(WriteBytes(m, 0, header), BToInt(lay.book),
            [items |-> items, data |-> BToInt(lay.data)])

\* Page::new's plan before it allocates: for_capacity, then the Book's
\* data: layout.data.try_into().unwrap()
Lib_plan(bits, t, items) ==
  LET lay == for_capacity(bits, t, items)
  IN  IF ~lay.ok THEN lay
      ELSE IF ~BLeq(lay.data, U32Max) THEN [ok |-> FALSE, why |-> "try_into"]
      ELSE lay

(***************************************************************************)
(* Both implementations, by the page's impl                                *)
(***************************************************************************)
Capacity(bits, m, t, i) ==
  IF i = "lib" THEN Lib_capacity(bits, m, t) ELSE PageRef_capacity(m, t)

Header(m, t, i) == IF i = "lib" THEN Lib_header(m, t) ELSE PageRef_header(m, t)

DataOffset(bits, m, t, i) ==
  IF i = "lib" THEN Lib_data_ptr(bits, m, t) ELSE PageRef_data(m, t)

\* data().add(k): offset of slot k
SlotOffset(bits, m, t, i, k) == DataOffset(bits, m, t, i) + k * BToInt(t.t.size)

\* data().add(k).read()
SlotRead(bits, m, t, i, k) ==
  ReadBytes(m, SlotOffset(bits, m, t, i, k), BToInt(t.t.size))

\* data().add(k).write(v)
SlotWriteMem(bits, m, t, i, k, v) ==
  WriteBytes(m, SlotOffset(bits, m, t, i, k), v)

(***************************************************************************)
(* Construction                                                            *)
(***************************************************************************)
\* alloc(layout): null, or a block when the allocator has that many bytes
AllocOutcomes(layout) ==
  {"null"} \cup (IF BLeq(layout.size, BFromInt(HeapBytes)) THEN {"block"} ELSE {})

Call(op, i, t, items) ==
  [NoCall EXCEPT !.op = op, !.impl = i, !.ty = t, !.items = items]

\* the call panics: nothing but the record of the call changes
Panicked(call, why) ==
  /\ last' = [call EXCEPT !.result = "panic", !.why = why]
  /\ UNCHANGED <<ptrBits, heap, mem, ty, impl, owned, rawRef, converted,
                 rebuilt, args, lastHeader, lastSlot, log, ub>>

\* alloc returned null and the call went on to write the header composite
\* through it and to wrap it in NonNull::new_unchecked: undefined behaviour,
\* after which the call may or may not return a handle
NullWrite(call, layout, data) ==
  /\ \E ret \in BOOLEAN :
       last' = [call EXCEPT !.result = "ub", !.why = "null", !.allocs = 1,
                            !.layout = layout, !.data = data,
                            !.nullWrite = TRUE, !.returned = ret]
  /\ ub' = TRUE
  /\ log' = Append(log, Event("alloc_null", layout))
  /\ UNCHANGED <<ptrBits, heap, mem, ty, impl, owned, rawRef, converted,
                 rebuilt, args, lastHeader, lastSlot>>

\* the call returns a handle on the initialised block m
Built(call, layout, data, header, m, asOwned) ==
  /\ last' = [call EXCEPT !.result = "ok", !.allocs = 1, !.layout = layout,
                          !.data = data, !.returned = TRUE]
  /\ heap' = "live"
  /\ mem' = m
  /\ ty' = call.ty
  /\ impl' = call.impl
  /\ owned' = IF asOwned THEN 1 ELSE 0
  /\ rawRef' = ~asOwned
  /\ args' = [header |-> header, items |-> call.items]
  /\ lastHeader' = NoValue
  /\ lastSlot' = [k \in 0..(call.items - 1) |-> NoValue]
  /\ log' = Append(log, Event("alloc", layout))
  /\ UNCHANGED <<ptrBits, converted, rebuilt, ub>>

\* PageRef::new(header, items): with_capacity, alloc, from_uninit
PageRef_new(op, t, header, items, asOwned) ==
  LET lay == with_capacity(ptrBits, t, items)
      call == Call(op, "ref", t, items)
  IN  IF ~lay.ok THEN Panicked(call, lay.why)
      ELSE \E out \in AllocOutcomes(lay.layout) :
             IF out = "null" THEN NullWrite(call, lay.layout, lay.desc.data)
             ELSE Built(call, lay.layout, lay.desc.data, header,
                        PageRef_from_uninit(
                          FreshMem(BToInt(lay.layout.size)), t, header, lay),
                        asOwned)

\* Page::new(header, items) == Page(PageRef::new(header, items))
Page_new(t, header, items) == PageRef_new("Page::new", t, header, items, TRUE)

\* lib.rs Page::new(header, items)
Lib_Page_new(t, header, items) ==
  LET lay == Lib_plan(ptrBits, t, items)
      call == Call("lib::Page::new", "lib", t, items)
  IN  IF ~lay.ok THEN Panicked(call, lay.why)
      ELSE \E out \in AllocOutcomes(lay.layout) :
             IF out = "null" THEN NullWrite(call, lay.layout, lay.data)
             ELSE Built(call, lay.layout, lay.data, header,
                        Lib_init(FreshMem(BToInt(lay.layout.size)),
                                 t, header, lay, items),
                        TRUE)

\* PageRef::from_uninit / Page::from_uninit over a block the caller
\* allocated according to a layout that with_capacity returned
From_uninit(op, t, header, items, asOwned) ==
  LET lay == with_capacity(ptrBits, t, items)
  IN  /\ lay.ok
      /\ BLeq(lay.layout.size, BFromInt(HeapBytes))
      /\ Built(Call(op, "ref", t, items), lay.layout, lay.desc.data, header,
               PageRef_from_uninit(
                 FreshMem(BToInt(lay.layout.size)), t, header, lay),
               asOwned)

\* PageLayout::with_capacity(items), called for its own sake
WithCapacityCall(t, items) ==
  LET lay == with_capacity(ptrBits, t, items)
      call == Call("with_capacity", "ref", t, items)
  IN  IF ~lay.ok THEN Panicked(call, lay.why)
      ELSE /\ last' = [call EXCEPT !.result = "ok", !.layout = lay.layout,
                                   !.data = lay.desc.data]
           /\ UNCHANGED <<ptrBits, heap, mem, ty, impl, owned, rawRef,
                          converted, rebuilt, args, lastHeader, lastSlot,
                          log, ub>>

\* The model follows one call of a constructor and the page it returns.
CanConstruct == heap = "none" /\ ~ub /\ last.op = "none"

PageNew ==
  /\ CanConstruct
  /\ \E t \in TypeInsts(ptrBits), items \in Caps :
       \E header \in Values(t.h.size, HeaderBytes) : Page_new(t, header, items)

PageRefNew ==
  /\ CanConstruct
  /\ \E t \in TypeInsts(ptrBits), items \in Caps :
       \E header \in Values(t.h.size, HeaderBytes) :
         PageRef_new("PageRef::new", t, header, items, FALSE)

LibPageNew ==
  /\ CanConstruct
  /\ \E t \in TypeInsts(ptrBits), items \in Caps :
       \E header \in Values(t.h.size, HeaderBytes) :
         Lib_Page_new(t, header, items)

PageFromUninit ==
  /\ CanConstruct
  /\ \E t \in TypeInsts(ptrBits), items \in Caps :
       \E header \in Values(t.h.size, HeaderBytes) :
         From_uninit("Page::from_uninit", t, header, items, TRUE)

PageRefFromUninit ==
  /\ CanConstruct
  /\ \E t \in TypeInsts(ptrBits), items \in Caps :
       \E header \in Values(t.h.size, HeaderBytes) :
         From_uninit("PageRef::from_uninit", t, header, items, FALSE)

LayoutWithCapacity ==
  /\ CanConstruct
  /\ \E t \in TypeInsts(ptrBits), items \in Caps : WithCapacityCall(t, items)

(***************************************************************************)
(* Use of a live page                                                      *)
(***************************************************************************)
Usable == heap = "live" /\ ~ub /\ (owned > 0 \/ rawRef)

\* *page.header_mut() = v
HeaderWrite ==
  /\ Usable
  /\ \E v \in Values(ty.h.size, HeaderBytes) :
       /\ mem' = IF impl = "lib" THEN Lib_header_mut_write(mem, ty, v)
                 ELSE PageRef_header_mut_write(mem, ty, v)
       /\ lastHeader' = v
  /\ UNCHANGED <<ptrBits, heap, ty, impl, owned, rawRef, converted, rebuilt,
                 args, lastSlot, log, last, ub>>

\* page.data().add(k).write(v), k below the capacity the caller asked for
SlotWrite ==
  /\ Usable
  /\ \E k \in 0..(args.items - 1), v \in Values(ty.t.size, ItemBytes) :
       /\ mem' = SlotWriteMem(ptrBits, mem, ty, impl, k, v)
       /\ lastSlot' = [lastSlot EXCEPT ![k] = v]
  /\ UNCHANGED <<ptrBits, heap, ty, impl, owned, rawRef, converted, rebuilt,
                 args, lastHeader, log, last, ub>>

\* the owning handle is moved (passed on, returned, assigned): the handle is
\* one pointer, a move copies it and runs no code of the page
MovePage ==
  /\ heap = "live" /\ ~ub /\ owned > 0
  /\ UNCHANGED vars

\* to_ref without forget(self): self is dropped as to_ref returns
Page_to_ref_dropping ==
  /\ heap = "live" /\ ~ub /\ impl = "ref" /\ owned > 0
  /\ owned' = owned - 1
  /\ rawRef' = TRUE
  /\ converted' = TRUE
  /\ log' = log \o <<Event("drop_header", NoLayout), Event("read_desc", NoLayout),
                     Event("dealloc", last.layout)>>
  /\ heap' = "freed"
  /\ mem' = <<>>
  /\ lastHeader' = NoValue
  /\ UNCHANGED <<ptrBits, ty, impl, rebuilt, args, lastSlot, last, ub>>

\* Page::to_ref: forget(self)
Page_to_ref ==
  /\ heap = "live" /\ ~ub /\ impl = "ref" /\ owned > 0
  /\ owned' = owned - 1
  /\ rawRef' = TRUE
  /\ converted' = TRUE
  /\ UNCHANGED <<ptrBits, heap, mem, ty, impl, rebuilt, args, lastHeader,
                 lastSlot, log, last, ub>>

\* Page::from_ref: Page(page_ref); the PageRef is Copy and stays
Page_from_ref ==
  /\ heap # "none" /\ ~ub /\ impl = "ref" /\ rawRef
  /\ owned < MaxOwners
  /\ owned' = owned + 1
  /\ rebuilt' = TRUE
  /\ UNCHANGED <<ptrBits, heap, mem, ty, impl, rawRef, converted,
                 args, lastHeader, lastSlot, log, last, ub>>

(***************************************************************************)
(* Destruction                                                             *)
(***************************************************************************)
DropHeader == Event("drop_header", NoLayout)
ReadDescEv == Event("read_desc", NoLayout)

\* drop_in_place of the header, the descriptor read, the layout recomputed
\* from it, and dealloc; on a freed page every step of it is undefined
\* behaviour.
Destroy(lay) ==
  IF heap = "live"
  THEN IF lay.ok
       THEN /\ log' = log \o <<DropHeader, ReadDescEv, Event("dealloc", lay.layout)>>
            /\ heap' = "freed"
            /\ mem' = <<>>
            /\ ub' = (lay.layout # last.layout)
            /\ lastHeader' = NoValue
       ELSE /\ log' = log \o <<DropHeader, ReadDescEv>>
            /\ UNCHANGED <<heap, mem, ub, lastHeader>>
  ELSE /\ log' = log \o <<DropHeader, ReadDescEv, Event("dealloc", NoLayout)>>
       /\ ub' = TRUE
       /\ UNCHANGED <<heap, mem, lastHeader>>

\* PageRef::drop that destructs the header and never deallocates
PageRef_drop_leaking ==
  /\ log' = log \o <<DropHeader>>
  /\ UNCHANGED <<heap, mem, ub, lastHeader>>

\* PageRef::drop(page)
PageRef_drop ==
  Destroy(IF heap = "live" THEN PageRef_layout(ptrBits, mem, ty)
          ELSE [ok |-> FALSE])

\* impl Drop for Page: PageRef::drop(self.0)
Page_drop ==
  /\ heap # "none" /\ ~ub /\ impl = "ref" /\ owned > 0
  /\ owned' = owned - 1
  /\ PageRef_drop
  /\ UNCHANGED <<ptrBits, ty, impl, rawRef, converted, rebuilt, args,
                 lastSlot, last>>

\* the caller's explicit PageRef::drop(page_ref)
PageRefDrop ==
  /\ heap # "none" /\ ~ub /\ impl = "ref" /\ rawRef
  /\ PageRef_drop
  /\ UNCHANGED <<ptrBits, ty, impl, owned, rawRef, converted, rebuilt, args,
                 lastSlot, last>>

\* lib.rs impl Drop for Page
Lib_Page_drop ==
  /\ heap # "none" /\ ~ub /\ impl = "lib" /\ owned > 0
  /\ owned' = owned - 1
  /\ Destroy(IF heap = "live"
             THEN for_capacity(ptrBits, ty, Lib_capacity(ptrBits, mem, ty))
             ELSE [ok |-> FALSE])
  /\ UNCHANGED <<ptrBits, ty, impl, rawRef, converted, rebuilt, args,
                 lastSlot, last>>

Next ==
  \/ PageNew
  \/ PageRefNew
  \/ LibPageNew
  \/ PageFromUninit
  \/ PageRefFromUninit
  \/ LayoutWithCapacity
  \/ HeaderWrite
  \/ SlotWrite
  \/ MovePage
  \/ Page_to_ref
  \/ Page_from_ref
  \/ Page_drop
  \/ PageRefDrop
  \/ Lib_Page_drop

Spec == Init /\ [][Next]_vars
(***************************************************************************)
(* Properties                                                              *)
(***************************************************************************)
Count(e) == Cardinality({i \in DOMAIN log : log[i].ev = e})

\* the last call computed a layout (it went on to allocate, or returned it)
LayoutComputed == last.op # "none" /\ last.result \in {"ok", "ub"}

\* size(H) + size(descriptor) + items * size(T) of a call
InputTotal(c) ==
  BAdd(BAdd(c.ty.h.size, BFromInt(DescSize)),
       BMul(c.ty.t.size, BFromInt(c.items)))

\* C1: an owned Page from Page::new that was never converted with to_ref has
\* its header destructor and deallocate run not at all while the handle
\* lives, and exactly once each once the handle is dropped, whatever was
\* written and however the handle moved.
C1_ExactlyOnceDestruction ==
  (last.op \in {"Page::new", "lib::Page::new"} /\ last.result = "ok"
     /\ ~converted)
  => /\ owned \in {0, 1}
     /\ ~ub
     /\ owned = 1 => /\ heap = "live"
                     /\ Count("drop_header") = 0
                     /\ Count("dealloc") = 0
     /\ owned = 0 => /\ heap = "freed"
                     /\ Count("drop_header") = 1
                     /\ Count("dealloc") = 1

C1_Witness ==
  /\ last.op = "Page::new" /\ ~converted
  /\ owned = 0 /\ heap = "freed"
  /\ Count("dealloc") = 1
  /\ \E k \in DOMAIN lastSlot : lastSlot[k] # NoValue

\* C2: to_ref runs no destructor and no deallocate; after it they run only
\* by an explicit PageRef::drop while no owning handle exists; from_ref
\* returns a handle on the same allocation, header and capacity; and short
\* of undefined behaviour a converted page is destructed and deallocated
\* exactly once in total.
C2_ToRefDisarms ==
  /\ []((last.op = "Page::new" /\ converted /\ ~ub)
        => /\ heap = "live" => Count("drop_header") = 0 /\ Count("dealloc") = 0
           /\ heap = "freed" => Count("drop_header") = 1 /\ Count("dealloc") = 1)
  /\ [][(~converted /\ converted')
        => (log' = log /\ heap' = heap /\ mem' = mem /\ owned' = owned - 1)]_vars
  /\ [][(converted /\ owned = 0 /\ log' # log) => PageRefDrop]_vars
  /\ [][(heap # "none" /\ owned' > owned)
        => /\ log' = log /\ heap' = heap /\ mem' = mem
           /\ Header(mem', ty', impl') = Header(mem, ty, impl)
           /\ Capacity(ptrBits', mem', ty', impl') = Capacity(ptrBits, mem, ty, impl)]_vars

C2_Witness ==
  /\ last.op = "Page::new" /\ converted /\ rebuilt
  /\ owned = 0 /\ heap = "freed" /\ ~ub
  /\ Count("drop_header") = 1 /\ Count("dealloc") = 1

\* C3 (as claimed): every constructor called with capacity 0 panics, and
\* allocates nothing (a call that met a null allocation aside: see C5).
C3_ZeroCapacityAborts ==
  (last.op # "none" /\ last.items = 0 /\ last.why # "null")
  => (last.result = "panic" /\ last.allocs = 0 /\ heap = "none")

\* C4 (as claimed): a construction whose combined layout is larger than the
\* 32-bit range panics, before any allocate call.
C4_TotalOver32BitsAborts ==
  (last.op # "none" /\ last.items > 0 /\ BLess(U32Max, InputTotal(last)))
  => (last.result = "panic" /\ last.allocs = 0)

\* C4 (amended): a construction panics, before any allocate call, whenever
\* size(H) + size(descriptor) is larger than u32::MAX (the data offset does
\* not fit the descriptor) or size(H) + size(descriptor) + items * size(T) is
\* larger than the target's isize::MAX; and no construction that panics has
\* called allocate.
C4_OverflowAbortsBeforeAlloc ==
  /\ (last.op # "none" /\ last.items > 0
        /\ \/ BLess(U32Max, BAdd(last.ty.h.size, BFromInt(DescSize)))
           \/ BLess(ISizeMax(ptrBits), InputTotal(last)))
     => last.result = "panic"
  /\ last.result = "panic"
     => (last.allocs = 0 /\ heap = "none" /\ log = <<>>)

C4_Witness ==
  /\ last.op = "Page::new" /\ last.items > 0
  /\ last.result = "panic" /\ last.why = "try_into"
  /\ log = <<>>

\* C5 (as claimed): when allocate returns null the constructor panics; it
\* neither writes the header composite through the pointer nor returns a
\* handle.
C5_NullAllocAborts ==
  last.why = "null"
  => (last.result = "panic" /\ ~last.nullWrite /\ ~last.returned)

\* C6: while a page is live, capacity() is the capacity it was constructed
\* with and the descriptor holds what construction wrote, and header() is
\* the constructor's header until a header write and the last written
\* header after it.
C6_CapacityAndHeaderStable ==
  (heap = "live" /\ ~ub)
  => /\ Capacity(ptrBits, mem, ty, impl) = args.items
     /\ DataOffset(ptrBits, mem, ty, impl) = BToInt(last.data)
     /\ Header(mem, ty, impl) =
          (IF lastHeader = NoValue THEN args.header ELSE lastHeader)

C6_Witness ==
  /\ heap = "live" /\ ~ub
  /\ lastHeader # NoValue /\ lastHeader # args.header
  /\ \A k \in DOMAIN lastSlot : lastSlot[k] # NoValue
  /\ args.items > 1

\* C7: while a page is live, every slot the caller wrote reads back the
\* value last written to it, whatever header writes and writes to other
\* slots came after.
C7_SlotRoundTrip ==
  (heap = "live" /\ ~ub)
  => \A k \in DOMAIN lastSlot :
       lastSlot[k] # NoValue
       => SlotRead(ptrBits, mem, ty, impl, k) = lastSlot[k]

C7_Witness ==
  /\ heap = "live" /\ ~ub
  /\ lastHeader # NoValue
  /\ \E j, k \in DOMAIN lastSlot :
       /\ lastSlot[j] # NoValue /\ lastSlot[k] # NoValue
       /\ lastSlot[j] # lastSlot[k]

\* C8: for capacity > 0 the computed data offset is at least
\* size(H) + size(descriptor), is a multiple of the alignment of T, and
\* leaves room for all the slots inside the layout's size.
C8_DataOffsetBounds ==
  (LayoutComputed /\ last.items > 0)
  => /\ BLeq(BAdd(last.ty.h.size, BFromInt(DescSize)), last.data)
     /\ BModAlign(last.data, last.ty.t.align) = 0
     /\ BLeq(BAdd(last.data, BMul(last.ty.t.size, BFromInt(last.items))),
             last.layout.size)

C8_Witness ==
  /\ last.op = "with_capacity" /\ last.result = "ok" /\ last.items > 1
  /\ BLess(BAdd(last.ty.h.size, BFromInt(DescSize)), last.data)

\* C9: for capacity > 0 the computed layout's size is a multiple of its
\* alignment, and its alignment is at least that of H, of the descriptor
\* and of T.
C9_SizeMultipleOfAlign ==
  (LayoutComputed /\ last.items > 0)
  => /\ BModAlign(last.layout.size, last.layout.align) = 0
     /\ last.layout.align >= last.ty.h.align
     /\ last.layout.align >= DescAlign
     /\ last.layout.align >= last.ty.t.align

C9_Witness ==
  /\ last.op = "PageRef::new" /\ last.result = "ok" /\ last.items > 0
  /\ BLess(BAdd(last.data, BMul(last.ty.t.size, BFromInt(last.items))),
           last.layout.size)

\* the bytes of the header composite of the live page
InComposite(k) ==
  LET hoff == IF impl = "lib" THEN 0 ELSE HeaderOffset(ty)
      doff == IF impl = "lib" THEN BToInt(static_prefix(ptrBits, ty.h).offset)
              ELSE DescOffset(ty)
  IN  \/ hoff <= k /\ k < hoff + BToInt(ty.h.size)
      \/ doff <= k /\ k < doff + DescSize

\* the bytes of the slots the caller wrote
InWrittenSlot(k) ==
  \E j \in DOMAIN lastSlot :
    /\ lastSlot[j] # NoValue
    /\ BToInt(last.data) + j * BToInt(ty.t.size) <= k
    /\ k < BToInt(last.data) + (j + 1) * BToInt(ty.t.size)

\* C10: construction writes the header composite and nothing else, so every
\* byte outside it and outside the slots the caller wrote is uninitialised;
\* and destruction is the header's destructor, the descriptor read and one
\* deallocate, with no destructor run for a slot.
C10_SlotsNeverTouched ==
  /\ (heap = "live" /\ ~ub)
     => \A k \in DOMAIN mem :
          (InComposite(k) \/ InWrittenSlot(k)) \/ mem[k] = Uninit
  /\ \A i \in DOMAIN log :
       log[i].ev \in {"alloc", "alloc_null", "drop_header", "read_desc", "dealloc"}
  /\ (heap = "freed" /\ ~ub)
     => log = <<Event("alloc", last.layout), DropHeader, ReadDescEv,
                Event("dealloc", last.layout)>>

C10_Witness ==
  /\ heap = "freed" /\ ~ub
  /\ \E j, k \in DOMAIN lastSlot :
       lastSlot[j] # NoValue /\ lastSlot[k] = NoValue

\* C11: PageRef::drop on a live page destructs the header in place, then
\* reads the embedded descriptor, then deallocates once, in that order; the
\* layout it passes to deallocate, recomputed from the descriptor, is the
\* layout that was passed to allocate, for every capacity and whatever was
\* written to the header and the slots; the page's memory is gone with the
\* deallocate and no later step reads or writes it.
C11_DropOrderAndLayout ==
  /\ [][(impl = "ref" /\ heap = "live" /\ ~ub /\ log' # log)
        => /\ Len(log) = 1 /\ log[1].ev = "alloc"
           /\ log' = log \o <<DropHeader, ReadDescEv,
                              Event("dealloc", log[1].layout)>>
           /\ log[1].layout = last.layout
           /\ heap' = "freed" /\ mem' = <<>> /\ ~ub']_vars
  /\ []((impl = "ref" /\ heap = "freed" /\ ~ub)
        => /\ Count("alloc") = 1 /\ Count("dealloc") = 1
           /\ log[Len(log)].ev = "dealloc"
           /\ log[Len(log)].layout = log[1].layout
           /\ mem = <<>>)
  /\ [][(impl = "ref" /\ heap = "freed" /\ ~ub')
        => (log' = log /\ mem' = mem /\ heap' = heap)]_vars

C11_Witness ==
  /\ last.op = "PageRef::new" /\ last.items > 1
  /\ heap = "freed" /\ ~ub /\ ~rebuilt
  /\ log[Len(log)] = Event("dealloc", last.layout)
  /\ \A k \in DOMAIN lastSlot : lastSlot[k] # NoValue
====
